---- MODULE Spec2Model ----
(***************************************************************************)
(* dirdiff.py: compare two directories by SHA-256 of every file.           *)
(*                                                                         *)
(* main() hashes every file of dir1 and of dir2 on a multiprocessing Pool  *)
(* into two Manager dicts, joins the pool, and compare_directories() then  *)
(* runs one check_file task per key of the first dict on a second Pool,    *)
(* collecting the non-None results in the list whoops through a callback.  *)
(*                                                                         *)
(* Paths are sequences of components (<<"d1","s","a">> is d1/s/a), a file  *)
(* content is a sequence of bytes, a dict is the sequence of its           *)
(* <<key, value>> items in insertion order, as a Python dict keeps them.   *)
(***************************************************************************)
EXTENDS Integers, Sequences, FiniteSets, TLC

(* ------------------------------------------------------------------ *)
(* Bounds of the model                                                 *)
(* ------------------------------------------------------------------ *)

\* --threads ranges over -1..MaxThreads (below 1 Pool() raises)
MaxThreads == 2

\* longest file content hash_file is run on by itself
MaxLen == 3

\* largest chunk_size hash_file is run with by itself
MaxChunk == 3

(* ------------------------------------------------------------------ *)
(* The file system the program runs on                                 *)
(* ------------------------------------------------------------------ *)

D1 == <<"d1">>
D2 == <<"d2">>
S1 == <<"d1", "s">>
NoDir == <<"x">>

\* names a directory entry can have, in the order os.listdir returns them
Names == <<"a", "b", "s">>

\* the regular files that may exist
FilePaths == { <<"d1", "a">>, <<"d1", "b">>, <<"d1", "s", "a">>,
               <<"d2", "a">>, <<"d2", "b">> }

\* the directories that may exist besides D1 and D2, which always do
OptDirs == { S1 }

hello == <<104, 105>>
world == <<119>>

\* contents a readable file may have
FileContents == { hello, world }

NoEnt == [kind |-> "none"]
Dir == [kind |-> "dir"]
Unreadable == [kind |-> "file", ok |-> FALSE, data |-> <<>>]
File(c) == [kind |-> "file", ok |-> TRUE, data |-> c]

FileStates == { NoEnt, Unreadable } \cup { File(c) : c \in FileContents }

\* what the file at p may be: any of FileStates at a, never unreadable at b,
\* one content in the subdirectory
StatesAt(p) ==
  IF p[Len(p)] = "b" THEN FileStates \ {Unreadable}
  ELSE IF Len(p) > 2 THEN { NoEnt, Unreadable, File(hello) }
  ELSE FileStates

IsPrefix(p, q) == Len(p) <= Len(q) /\ SubSeq(q, 1, Len(p)) = p

Parent(p) == SubSeq(p, 1, Len(p) - 1)

VARIABLES
  args,        \* the parsed command line: dir1, dir2, recursive, threads
  fs,          \* the file system: path -> node
  pc,          \* where main() is
  err,         \* the exception main() died of, "" when none
  manager,     \* TRUE once the Manager and its two dicts exist
  dir1_files,  \* manager.dict() of the first directory
  dir2_files,  \* manager.dict() of the second directory
  todo,        \* what the running for loop of main() still has to dispatch
  hq,          \* hashing pool: tasks queued and not yet taken by a worker
  hrun,        \* hashing pool: tasks a worker is running
  hpool,       \* hashing pool: "none", "open", "closed", "joined"
  keys_todo,   \* compare_directories: keys the for loop still has to dispatch
  cq,          \* comparison pool: tasks queued
  crun,        \* comparison pool: tasks a worker is running
  outq,        \* comparison pool: results waiting for the result handler
  cpool,       \* comparison pool: "none", "open", "closed", "joined"
  whoops,      \* the list the callback appends to
  wrong_files, \* what compare_directories returned
  stdout,      \* what main() printed
  hf           \* a call of hash_file run by itself, read by read

vars == << args, fs, pc, err, manager, dir1_files, dir2_files, todo, hq, hrun,
           hpool, keys_todo, cq, crun, outq, cpool, whoops, wrong_files, stdout,
           hf >>

hashvars == << todo, hq, hrun, hpool >>
cmpvars == << keys_todo, cq, crun, outq, cpool, whoops >>
dictvars == << manager, dir1_files, dir2_files >>

(* ------------------------------------------------------------------ *)
(* os.path and os                                                      *)
(* ------------------------------------------------------------------ *)

Node(p) == IF p \in DOMAIN fs THEN fs[p] ELSE NoEnt

\* os.path.exists
exists(p) == Node(p).kind # "none"

isdir(p) == Node(p).kind = "dir"

\* os.path.join(path, filename)
join(path, filename) == Append(path, filename)

\* os.listdir(p): every entry of p, directories included
listdir(p) == SelectSeq(Names, LAMBDA n : exists(join(p, n)))

RECURSIVE WalkFrom(_, _)
\* os.walk(top), flattened to the (path, f) pairs of its inner loop:
\* top-down, the files of a directory before its subdirectories
WalkFrom(p, depth) ==
  IF ~isdir(p) \/ depth = 0 THEN <<>>
  ELSE LET files == SelectSeq(listdir(p), LAMBDA n : ~isdir(join(p, n)))
           dirs == SelectSeq(listdir(p), LAMBDA n : isdir(join(p, n)))
           Here == [i \in 1..Len(files) |-> [path |-> p, f |-> files[i]]]
           Below[i \in 0..Len(dirs)] ==
             IF i = 0 THEN <<>>
             ELSE Below[i - 1] \o WalkFrom(join(p, dirs[i]), depth - 1)
       IN Here \o Below[Len(dirs)]

walk(top) == WalkFrom(top, 3)

\* the (path, f) pairs of the loop over os.listdir(top)
listing(top) ==
  LET l == listdir(top) IN [i \in 1..Len(l) |-> [path |-> top, f |-> l[i]]]

(* ------------------------------------------------------------------ *)
(* hashlib.sha256 and hash_file                                        *)
(* ------------------------------------------------------------------ *)

\* The streaming hash is a fold over the bytes fed to it, of fixed width.
\* It stands for SHA-256: distinct contents of FileContents get distinct
\* digests.
DigestBase == 257
DigestMod == 4194304
DigestInit == 7

\* an update that absorbs only the last byte of the chunk it is given
update_last(h, chunk) ==
  IF chunk = <<>> THEN h
  ELSE (h * DigestBase + chunk[Len(chunk)] + 1) % DigestMod

RECURSIVE update(_, _)
\* hash.update(chunk)
update(h, chunk) ==
  IF chunk = <<>> THEN h
  ELSE update((h * DigestBase + Head(chunk) + 1) % DigestMod, Tail(chunk))

\* f.read(chunk_size) at offset pos of data
read(data, pos, chunk_size) ==
  SubSeq(data, pos + 1, IF pos + chunk_size > Len(data) THEN Len(data)
                        ELSE pos + chunk_size)

RECURSIVE ReadLoop(_, _, _, _)
\* the while loop of hash_file, entered with the first chunk already read
ReadLoop(h, data, pos, chunk_size) ==
  LET chunk == read(data, pos, chunk_size)
  IN IF chunk = <<>> THEN h
     ELSE ReadLoop(update(h, chunk), data, pos + Len(chunk), chunk_size)

DefaultChunkSize == 1048576

\* hash_file(filename, chunk_size) on a file holding data
hash_file(data, chunk_size) == ReadLoop(DigestInit, data, 0, chunk_size)

\* TRUE when open() or read() of p raises: p is missing, a directory, or
\* cannot be read
HashRaises(p) == Node(p).kind # "file" \/ ~Node(p).ok

(* ------------------------------------------------------------------ *)
(* dict                                                                *)
(* ------------------------------------------------------------------ *)

DictKeys(d) == [i \in 1..Len(d) |-> d[i][1]]

KeySet(d) == { d[i][1] : i \in 1..Len(d) }

DictHas(d, k) == \E i \in 1..Len(d) : d[i][1] = k

\* None; a digest is the one-element sequence of its number, a key is a path
None == <<>>

\* d.get(k): the value, or None

DictGet(d, k) ==
  IF DictHas(d, k) THEN d[CHOOSE i \in 1..Len(d) : d[i][1] = k][2] ELSE None

\* d[k] = v: a new key goes last, an existing key keeps its place
DictSet(d, k, v) ==
  IF DictHas(d, k)
  THEN [i \in 1..Len(d) |-> IF d[i][1] = k THEN <<k, v>> ELSE d[i]]
  ELSE Append(d, <<k, v>>)

SeqToSet(s) == { s[i] : i \in 1..Len(s) }

(* ------------------------------------------------------------------ *)
(* The functions of dirdiff.py                                         *)
(* ------------------------------------------------------------------ *)

\* hash_directory_file storing under the filename alone
hash_directory_file_by_name(d, path, filename) ==
  LET full_path == join(path, filename)
  IN IF HashRaises(full_path) THEN d
     ELSE DictSet(d, <<filename>>,
                  <<hash_file(Node(full_path).data, DefaultChunkSize)>>)

\* hash_directory_file storing None for a file it could not hash
hash_directory_file_sentinel(d, path, filename) ==
  LET full_path == join(path, filename)
  IN IF HashRaises(full_path) THEN DictSet(d, full_path, None)
     ELSE DictSet(d, full_path,
                  <<hash_file(Node(full_path).data, DefaultChunkSize)>>)

\* hash_directory_file(d, path, filename): the dict d afterwards. When
\* hash_file raises, the task dies before the assignment and d is unchanged.
hash_directory_file(d, path, filename) ==
  LET full_path == join(path, filename)
  IN IF HashRaises(full_path) THEN d
     ELSE DictSet(d, full_path,
                  <<hash_file(Node(full_path).data, DefaultChunkSize)>>)

\* check_file without line 60-61
check_file_no_missing(f, dir1, dir2) ==
  IF DictHas(dir2, f) /\ DictGet(dir1, f) # DictGet(dir2, f) THEN f ELSE None

\* check_file without line 62-63
check_file_no_differ(f, dir1, dir2) ==
  IF ~DictHas(dir2, f) THEN f ELSE None

\* check_file(f, dir1, dir2): f, or None
check_file(f, dir1, dir2) ==
  IF ~DictHas(dir2, f) THEN f
  ELSE IF DictGet(dir1, f) # DictGet(dir2, f) THEN f
  ELSE None

\* a callback without the test of line 44
callback_function_any(w, result) == Append(w, result)

\* callback_function(result) of compare_directories: whoops afterwards
callback_function(w, result) ==
  IF result # None THEN Append(w, result) ELSE w

\* a join that does not wait for the result handler
JoinIgnoresResults(queue, running, results) == queue = <<>> /\ running = {}

\* a join that does not wait for the tasks the workers are running
JoinIgnoresRunning(queue, running, results) == queue = <<>> /\ results = <<>>

\* Pool.join() returns once the workers have run every queued task and the
\* result handler has handled every result
JoinReturns(queue, running, results) ==
  queue = <<>> /\ running = {} /\ results = <<>>

\* a pool that keeps one of its n processes from running tasks
WorkerFreeButOne(running, n) == Cardinality(running) < n - 1

\* a worker of a pool of n processes is free to take the next task
WorkerFree(running, n) == Cardinality(running) < n

(* ------------------------------------------------------------------ *)
(* Initial states                                                      *)
(* ------------------------------------------------------------------ *)

\* no call of hash_file is run by itself
HfIdle == [pc |-> "idle"]

\* a regular file given as a directory
F2 == <<"d2", "a">>

\* the <<dir1, dir2>> arguments tried: apart, the same, one inside the
\* other, a regular file, and missing ones
ArgPairs == { <<D1, D2>>, <<D1, D1>>, <<S1, D1>>, <<D1, S1>>, <<D1, F2>>,
              <<NoDir, D2>>, <<D1, NoDir>>, <<NoDir, NoDir>> }

ArgSpace ==
  { [dir1 |-> p[1], dir2 |-> p[2], recursive |-> r, threads |-> n] :
      p \in ArgPairs, r \in BOOLEAN, n \in (-1)..MaxThreads }

\* D1 and D2 exist; an optional directory may exist; a file may exist only
\* in an existing directory
FsOf(dirs, files) ==
  [p \in FilePaths \cup OptDirs \cup {D1, D2} |->
     IF p \in {D1, D2} THEN Dir
     ELSE IF p \in OptDirs THEN dirs[p]
     ELSE files[p]]

FsSpace ==
  { f \in { FsOf(dirs, files) : dirs \in [OptDirs -> {NoEnt, Dir}],
                                files \in [FilePaths -> FileStates] } :
      \A p \in FilePaths :
        /\ f[p] \in StatesAt(p)
        /\ f[Parent(p)] # Dir => f[p] = NoEnt }

\* nothing outside the two directories is ever looked at: it is left empty
Relevant(a, f) ==
  \A p \in FilePaths \cup OptDirs :
    ~IsPrefix(a.dir1, p) /\ ~IsPrefix(a.dir2, p) => f[p] = NoEnt

Init ==
  /\ args \in ArgSpace
  /\ fs \in FsSpace
  /\ Relevant(args, fs)
  /\ pc = "start"
  /\ err = ""
  /\ manager = FALSE
  /\ dir1_files = <<>>
  /\ dir2_files = <<>>
  /\ todo = <<>>
  /\ hq = <<>>
  /\ hrun = {}
  /\ hpool = "none"
  /\ keys_todo = <<>>
  /\ cq = <<>>
  /\ crun = {}
  /\ outq = <<>>
  /\ cpool = "none"
  /\ whoops = <<>>
  /\ wrong_files = <<>>
  /\ stdout = <<>>
  /\ hf = HfIdle

(* ------------------------------------------------------------------ *)
(* main                                                                *)
(* ------------------------------------------------------------------ *)

Raise(e) == pc' = "error" /\ err' = e

\* line 73 with "and" for "or"
PathsBothMissing(dir1, dir2) == ~exists(dir1) /\ ~exists(dir2)

\* the condition of line 73
PathsMissing(dir1, dir2) == ~exists(dir1) \/ ~exists(dir2)

\* lines 73-74
MainCheckPaths ==
  /\ pc = "start"
  /\ IF PathsMissing(args.dir1, args.dir2)
     THEN Raise("RuntimeError")
     ELSE pc' = "setup" /\ err' = err
  /\ UNCHANGED << args, fs, hf, dictvars, hashvars, cmpvars, wrong_files, stdout >>

\* a Pool that takes 0 processes
PoolRaisesBelowZero(processes) == processes < 0

\* line 80: Pool(processes) raises ValueError for a number below 1
PoolRaises(processes) == processes < 1

\* lines 76-80: the Manager, its dicts, and Pool(args.threads)
MainSetup ==
  /\ pc = "setup"
  /\ manager' = TRUE
  /\ dir1_files' = <<>>
  /\ dir2_files' = <<>>
  /\ IF PoolRaises(args.threads)
     THEN Raise("ValueError") /\ hpool' = hpool
     ELSE pc' = "for1" /\ err' = err /\ hpool' = "open"
  /\ UNCHANGED << args, fs, hf, todo, hq, hrun, cmpvars, wrong_files, stdout >>

\* what the for loops over directory top dispatch, lines 82-83 or 91
Enumerate(top) == IF args.recursive THEN walk(top) ELSE listing(top)

\* os.listdir raises for a top that is no directory; os.walk yields nothing
EnumerateRaises(top) == ~args.recursive /\ ~isdir(top)

\* lines 82 and 91 (dir1), 85 and 93 (dir2): the for loop is entered.
\* When os.listdir raises, main() dies: leaving the with block shuts the
\* Manager down and the pool is terminated with the process, so no task
\* writes a dict any more.
MainFor(n, top) ==
  /\ pc = IF n = 1 THEN "for1" ELSE "for2"
  /\ IF EnumerateRaises(top)
     THEN /\ Raise("NotADirectoryError")
          /\ todo' = todo
          /\ hq' = <<>>
          /\ hrun' = {}
          /\ hpool' = "terminated"
     ELSE /\ pc' = (IF n = 1 THEN "loop1" ELSE "loop2")
          /\ err' = err
          /\ todo' = Enumerate(top)
          /\ UNCHANGED << hq, hrun, hpool >>
  /\ UNCHANGED << args, fs, hf, dictvars, cmpvars, wrong_files, stdout >>

\* lines 84, 87, 92, 94: thread_pool.apply_async(hash_directory_file, ...)
MainDispatch(n) ==
  /\ pc = IF n = 1 THEN "loop1" ELSE "loop2"
  /\ todo # <<>>
  /\ hq' = Append(hq, [d |-> n, path |-> Head(todo).path, f |-> Head(todo).f])
  /\ todo' = Tail(todo)
  /\ UNCHANGED << args, fs, hf, pc, err, dictvars, hrun, hpool, cmpvars,
                  wrong_files, stdout >>

\* the for loop ends
MainEndFor(n) ==
  /\ pc = IF n = 1 THEN "loop1" ELSE "loop2"
  /\ todo = <<>>
  /\ pc' = IF n = 1 THEN "for2"
           ELSE IF args.recursive THEN "close_r" ELSE "close"
  /\ UNCHANGED << args, fs, hf, err, dictvars, hashvars, cmpvars, wrong_files,
                  stdout >>

\* lines 88 and 95: thread_pool.close()
MainClose ==
  /\ pc \in {"close_r", "close"}
  /\ hpool' = IF hpool = "open" THEN "closed" ELSE hpool
  /\ pc' = IF pc = "close_r" THEN "join_r" ELSE "join"
  /\ UNCHANGED << args, fs, hf, err, dictvars, todo, hq, hrun, cmpvars,
                  wrong_files, stdout >>

\* lines 89 and 96: thread_pool.join()
MainJoin ==
  /\ pc \in {"join_r", "join"}
  /\ JoinReturns(hq, hrun, <<>>)
  /\ hpool' = "joined"
  /\ pc' = IF pc = "join_r" THEN "close" ELSE "compare"
  /\ UNCHANGED << args, fs, hf, err, dictvars, todo, hq, hrun, cmpvars,
                  wrong_files, stdout >>

\* a worker of the hashing pool takes the next task
HashStart ==
  /\ hpool \in {"open", "closed"}
  /\ hq # <<>>
  /\ WorkerFree(hrun, args.threads)
  /\ hrun' = hrun \cup {Head(hq)}
  /\ hq' = Tail(hq)
  /\ UNCHANGED << args, fs, hf, pc, err, dictvars, todo, hpool, cmpvars,
                  wrong_files, stdout >>

\* a hash task that assigns into the dict of the other root
HashFinishOtherDict(t) ==
  /\ t \in hrun
  /\ hrun' = hrun \ {t}
  /\ IF t.d = 2
     THEN /\ dir1_files' = hash_directory_file(dir1_files, t.path, t.f)
          /\ dir2_files' = dir2_files
     ELSE /\ dir2_files' = hash_directory_file(dir2_files, t.path, t.f)
          /\ dir1_files' = dir1_files
  /\ UNCHANGED << args, fs, hf, pc, err, manager, todo, hq, hpool, cmpvars,
                  wrong_files, stdout >>

\* a worker of the hashing pool finishes hash_directory_file, lines 30-31
HashFinish(t) ==
  /\ t \in hrun
  /\ hrun' = hrun \ {t}
  /\ IF t.d = 1
     THEN /\ dir1_files' = hash_directory_file(dir1_files, t.path, t.f)
          /\ dir2_files' = dir2_files
     ELSE /\ dir2_files' = hash_directory_file(dir2_files, t.path, t.f)
          /\ dir1_files' = dir1_files
  /\ UNCHANGED << args, fs, hf, pc, err, manager, todo, hq, hpool, cmpvars,
                  wrong_files, stdout >>

(* ------------------------------------------------------------------ *)
(* compare_directories                                                 *)
(* ------------------------------------------------------------------ *)

\* a for loop over the keys of both dicts
CompareKeysBoth(dir1, dir2) == DictKeys(dir1) \o DictKeys(dir2)

\* line 46: the keys the for loop of compare_directories runs over
CompareKeys(dir1, dir2) == DictKeys(dir1)

\* lines 41-46: whoops, the Pool, and the keys the for loop runs over
CompareEnter ==
  /\ pc = "compare"
  /\ whoops' = <<>>
  /\ cpool' = "open"
  /\ keys_todo' = CompareKeys(dir1_files, dir2_files)
  /\ pc' = "cloop"
  /\ UNCHANGED << args, fs, hf, err, dictvars, hashvars, cq, crun, outq,
                  wrong_files, stdout >>

\* line 47: thread_pool.apply_async(check_file, (k, ...), callback=...)
CompareDispatch ==
  /\ pc = "cloop"
  /\ keys_todo # <<>>
  /\ cq' = Append(cq, Head(keys_todo))
  /\ keys_todo' = Tail(keys_todo)
  /\ UNCHANGED << args, fs, hf, pc, err, dictvars, hashvars, crun, outq, cpool,
                  whoops, wrong_files, stdout >>

\* line 48: thread_pool.close()
CompareClose ==
  /\ pc = "cloop"
  /\ keys_todo = <<>>
  /\ cpool' = "closed"
  /\ pc' = "cjoin"
  /\ UNCHANGED << args, fs, hf, err, dictvars, hashvars, keys_todo, cq, crun,
                  outq, whoops, wrong_files, stdout >>

\* a worker of the comparison pool takes the next task
CheckStart ==
  /\ cpool \in {"open", "closed"}
  /\ cq # <<>>
  /\ WorkerFree(crun, args.threads)
  /\ crun' = crun \cup {Head(cq)}
  /\ cq' = Tail(cq)
  /\ UNCHANGED << args, fs, hf, pc, err, dictvars, hashvars, keys_todo, outq,
                  cpool, whoops, wrong_files, stdout >>

\* a worker of the comparison pool finishes check_file and sends the result
CheckFinish(k) ==
  /\ k \in crun
  /\ crun' = crun \ {k}
  /\ outq' = Append(outq, check_file(k, dir1_files, dir2_files))
  /\ UNCHANGED << args, fs, hf, pc, err, dictvars, hashvars, keys_todo, cq,
                  cpool, whoops, wrong_files, stdout >>

\* the result handler of the comparison pool runs the callback, lines 43-45
HandleResult ==
  /\ outq # <<>>
  /\ whoops' = callback_function(whoops, Head(outq))
  /\ outq' = Tail(outq)
  /\ UNCHANGED << args, fs, hf, pc, err, dictvars, hashvars, keys_todo, cq,
                  crun, cpool, wrong_files, stdout >>

\* lines 49-50 and 97: thread_pool.join(), return whoops
CompareReturn ==
  /\ pc = "cjoin"
  /\ JoinReturns(cq, crun, outq)
  /\ cpool' = "joined"
  /\ wrong_files' = whoops
  /\ pc' = "print"
  /\ UNCHANGED << args, fs, hf, err, dictvars, hashvars, keys_todo, cq, crun,
                  outq, whoops, stdout >>

Header == <<"The following files were present in", "and found to be missing">>
AllGood == <<"All good. Apparently">>

\* lines 98-103
MainPrint ==
  /\ pc = "print"
  /\ stdout' = IF wrong_files # <<>> THEN <<Header>> \o wrong_files
               ELSE <<AllGood>>
  /\ pc' = "done"
  /\ UNCHANGED << args, fs, hf, err, dictvars, hashvars, cmpvars, wrong_files >>

Next ==
  \/ MainCheckPaths
  \/ MainSetup
  \/ MainFor(1, args.dir1)
  \/ MainFor(2, args.dir2)
  \/ \E n \in {1, 2} : MainDispatch(n)
  \/ \E n \in {1, 2} : MainEndFor(n)
  \/ MainClose
  \/ MainJoin
  \/ HashStart
  \/ \E t \in hrun : HashFinish(t)
  \/ CompareEnter
  \/ CompareDispatch
  \/ CompareClose
  \/ CheckStart
  \/ \E k \in crun : CheckFinish(k)
  \/ HandleResult
  \/ CompareReturn
  \/ MainPrint

Spec == Init /\ [][Next]_vars

(* ------------------------------------------------------------------ *)
(* What the claims speak of                                            *)
(* ------------------------------------------------------------------ *)

\* the keys the hash tasks of directory top are dispatched for
ScanKeys(top) == { join(e.path, e.f) : e \in SeqToSet(Enumerate(top)) }

Readable(p) == ~HashRaises(p)

\* the path at the same relative position under dir2 as p is under dir1
Counterpart(p) ==
  args.dir2 \o SubSeq(p, Len(args.dir1) + 1, Len(p))

\* p is hashed under dir1, the file at the same relative position is hashed
\* under dir2, and both hashings succeed
InBoth(p) ==
  /\ p \in ScanKeys(args.dir1)
  /\ Counterpart(p) \in ScanKeys(args.dir2)
  /\ Readable(p)
  /\ Readable(Counterpart(p))

SameContent(p) == Node(p).data = Node(Counterpart(p)).data

Report == SeqToSet(wrong_files)

\* the digest of a content hashed in one piece
DigestOf(data) == <<update(DigestInit, data)>>

\* C1: a file at the same relative position under both roots, with the
\* same content and hashed in both, never gets its key into the report:
\* neither into whoops while the callbacks run, nor into the returned list.
C1_EqualContentNeverReported ==
  \A p \in ScanKeys(args.dir1) :
    InBoth(p) /\ SameContent(p) =>
      p \notin SeqToSet(whoops) /\ p \notin Report

C3_Scenario ==
  /\ args.dir1 = D1 /\ args.dir2 = D2 /\ ~args.recursive
  /\ ScanKeys(D1) = { <<"d1", "a">>, <<"d1", "b">> }
  /\ ScanKeys(D2) = { <<"d2", "a">>, <<"d2", "b">> }
  /\ fs[<<"d1", "a">>] = File(hello) /\ fs[<<"d2", "a">>] = File(hello)
  /\ fs[<<"d1", "b">>] = File(world) /\ fs[<<"d2", "b">>] = File(hello)

\* C3: when both roots hold a file at the same relative position, the
\* report holds the file if the contents differ and does not hold it if
\* they are equal; in the scenario the report is exactly {b}.
C3_ReportIsTheDiffering ==
  pc \in {"print", "done"} =>
    /\ \A p \in ScanKeys(args.dir1) :
         InBoth(p) => (p \in Report <=> ~SameContent(p))
    /\ C3_Scenario => Report = { <<"d1", "b">> }

\* C4: every element of the report is a key of the first dict, and no file
\* that is under dir2 and not under dir1 is in it.
C4_Directional ==
  \A p \in SeqToSet(whoops) \cup Report :
    /\ DictHas(dir1_files, p)
    /\ ~(exists(p) /\ IsPrefix(args.dir2, p) /\ ~IsPrefix(args.dir1, p))

\* dir1 = {}, dir2 = {a: "x"} gives an empty report
C4_Witness ==
  /\ pc = "done"
  /\ args.dir1 = D1 /\ args.dir2 = D2
  /\ dir1_files = <<>>
  /\ DictHas(dir2_files, <<"d2", "a">>)
  /\ wrong_files = <<>>
  /\ stdout = <<AllGood>>

(* compare_directories on its own: called on any two dicts *)

\* the keys and digests the two dicts are drawn from
CmpKeys == { <<"d1", "a">>, <<"d1", "b">> }
CmpDigests == { DigestOf(c) : c \in FileContents }

\* every dict over CmpKeys: distinct keys, in any order
Dicts ==
  { d \in UNION { [1..n -> CmpKeys \X CmpDigests] :
                    n \in 0..Cardinality(CmpKeys) } :
      \A i, j \in 1..Len(d) : d[i][1] = d[j][1] => i = j }

InitCompare ==
  /\ args \in { [dir1 |-> D1, dir2 |-> D2, recursive |-> FALSE,
                  threads |-> n] : n \in 1..MaxThreads }
  /\ fs = FsOf([p \in OptDirs |-> NoEnt], [p \in FilePaths |-> NoEnt])
  /\ pc = "compare"
  /\ err = ""
  /\ manager = TRUE
  /\ dir1_files \in Dicts
  /\ dir2_files \in Dicts
  /\ todo = <<>>
  /\ hq = <<>>
  /\ hrun = {}
  /\ hpool = "joined"
  /\ keys_todo = <<>>
  /\ cq = <<>>
  /\ crun = {}
  /\ outq = <<>>
  /\ cpool = "none"
  /\ whoops = <<>>
  /\ wrong_files = <<>>
  /\ stdout = <<>>
  /\ hf = HfIdle

NextCompare ==
  \/ CompareEnter
  \/ CompareDispatch
  \/ CompareClose
  \/ CheckStart
  \/ \E k \in crun : CheckFinish(k)
  \/ HandleResult
  \/ CompareReturn

SpecCompare == InitCompare /\ [][NextCompare]_vars

\* C5: compare_directories(A, B, N) returns a list whose elements are
\* exactly the keys of A that B lacks or maps to another digest, for every
\* N >= 1 and every order of completion.
C5_CompareContract ==
  pc = "print" =>
    Report = { k \in KeySet(dir1_files) :
                 \/ k \notin KeySet(dir2_files)
                 \/ DictGet(dir2_files, k) # DictGet(dir1_files, k) }

\* one key is in B with a different digest, the other with the same
C5_Witness ==
  /\ pc = "print"
  /\ args.threads > 1
  /\ DictHas(dir1_files, <<"d1", "a">>) /\ DictHas(dir2_files, <<"d1", "a">>)
  /\ DictGet(dir1_files, <<"d1", "a">>) # DictGet(dir2_files, <<"d1", "a">>)
  /\ DictHas(dir1_files, <<"d1", "b">>)
  /\ DictGet(dir1_files, <<"d1", "b">>) = DictGet(dir2_files, <<"d1", "b">>)
  /\ wrong_files = << <<"d1", "a">> >>

\* the report of the same run on one worker: every task runs to its end
\* before the next is taken, in the order of dispatch
RECURSIVE HashAll(_, _)
HashAll(d, tasks) ==
  IF tasks = <<>> THEN d
  ELSE HashAll(hash_directory_file(d, Head(tasks).path, Head(tasks).f),
               Tail(tasks))

RECURSIVE CheckAll(_, _, _, _)
CheckAll(w, keys, dir1, dir2) ==
  IF keys = <<>> THEN w
  ELSE CheckAll(callback_function(w, check_file(Head(keys), dir1, dir2)),
                Tail(keys), dir1, dir2)

SequentialReport ==
  LET dir1 == HashAll(<<>>, Enumerate(args.dir1))
      dir2 == HashAll(<<>>, Enumerate(args.dir2))
  IN CheckAll(<<>>, CompareKeys(dir1, dir2), dir1, dir2)

NoReadFails ==
  \A p \in ScanKeys(args.dir1) \cup ScanKeys(args.dir2) : Readable(p)

\* C6: with no hashing failure, the set of keys of the returned report is
\* the one a single worker produces, for every pool size and interleaving;
\* with one worker the list itself is that one.
C6_PoolSizeIndependent ==
  pc \in {"print", "done"} /\ NoReadFails =>
    /\ Report = SeqToSet(SequentialReport)
    /\ args.threads = 1 => wrong_files = SequentialReport

\* more than one worker: same keys, another order
C6_Witness ==
  /\ pc = "done"
  /\ NoReadFails
  /\ args.threads > 1
  /\ Report = SeqToSet(SequentialReport)
  /\ wrong_files # SequentialReport

\* C7: while compare_directories runs (from its call on) no hash task is
\* waiting to be dispatched, queued or running, and the hashing pool is
\* closed and joined.
C7_Barrier ==
  (pc \in {"compare", "cloop", "cjoin", "print", "done"}
   \/ cpool # "none" \/ keys_todo # <<>> \/ cq # <<>> \/ crun # {}
   \/ outq # <<>>)
  => todo = <<>> /\ hq = <<>> /\ hrun = {} /\ hpool = "joined"

C7_Witness ==
  /\ args.recursive
  /\ crun # {}
  /\ Len(dir1_files) > 1
  /\ Len(dir2_files) > 0

\* dict d holds one entry per file the scan of top enumerates, each the
\* digest of the file's content
MapComplete(d, top) ==
  /\ KeySet(d) = ScanKeys(top)
  /\ Len(d) = Len(Enumerate(top))
  /\ \A i \in 1..Len(d) : d[i][2] = DigestOf(Node(d[i][1]).data)

\* main() has just returned from a join of the hashing pool (lines 89, 96)
AtBarrier == hpool = "joined" /\ pc \in {"close", "join", "compare"}

\* C8: when no read fails, at the barrier (the hashing pool is joined and
\* compare_directories not yet called) each dict holds exactly one entry per
\* enumerated file, its value the digest of the file.
C8_MapsComplete ==
  AtBarrier /\ NoReadFails =>
    MapComplete(dir1_files, args.dir1) /\ MapComplete(dir2_files, args.dir2)

C8_Witness ==
  /\ pc = "compare"
  /\ NoReadFails
  /\ args.recursive
  /\ args.threads > 1
  /\ Len(dir1_files) = 3
  /\ Len(dir2_files) = 2
  /\ DictKeys(dir1_files) # DictKeys(HashAll(<<>>, Enumerate(args.dir1)))

Failing == { p \in ScanKeys(args.dir1) \cup ScanKeys(args.dir2) : ~Readable(p) }

\* a failing file never has a key
C9_NoKey ==
  \A p \in Failing : ~DictHas(dir1_files, p) /\ ~DictHas(dir2_files, p)

\* every task that does not fail has written its entry
C9_OthersWritten ==
  /\ KeySet(dir1_files) = ScanKeys(args.dir1) \ Failing
  /\ KeySet(dir2_files) = ScanKeys(args.dir2) \ Failing

\* main() dies of its arguments only
C9_ErrorIsOfArgs ==
  \/ err = "RuntimeError" /\ PathsMissing(args.dir1, args.dir2)
  \/ err = "ValueError" /\ args.threads < 1
  \/ /\ err = "NotADirectoryError"
     /\ EnumerateRaises(args.dir1) \/ EnumerateRaises(args.dir2)

\* the report is that of two dicts without the failing files
C9_ReportedAsAbsent ==
  Report = { p \in ScanKeys(args.dir1) \ Failing :
               p \notin ScanKeys(args.dir2) \ Failing }

\* C9: a hash task that fails writes no key; at the barrier every other
\* task has written its entry; main() does not die of the failure and is
\* never stuck, so the barrier is reached and the comparison runs; the
\* comparison treats the failing file as absent.
C9_FailureContained ==
  /\ Len(dir1_files) + Len(dir2_files) > 0 => C9_NoKey
  /\ AtBarrier /\ Failing # {} => C9_OthersWritten
  /\ pc = "error" /\ Failing # {} => C9_ErrorIsOfArgs
  /\ pc \notin {"done", "error"} /\ ~ENABLED Next => Failing = {}
  /\ pc \in {"print", "done"} /\ Failing # {} => C9_ReportedAsAbsent

C9_Witness ==
  /\ pc = "done"
  /\ args.dir1 = D1 /\ args.dir2 = D1
  /\ <<"d1", "a">> \in Failing
  /\ DictHas(dir1_files, <<"d1", "b">>)
  /\ DictHas(dir2_files, <<"d1", "b">>)
  /\ wrong_files = <<>>

\* C10: when dir1 or dir2 does not exist main() raises before anything is
\* done: no Manager dict, no pool, no task, no report, nothing printed.
C10_MissingPathNoWork ==
  ~exists(args.dir1) \/ ~exists(args.dir2) =>
    /\ pc \in {"start", "error"}
    /\ pc = "error" => err = "RuntimeError"
    /\ manager = FALSE
    /\ hpool = "none" /\ cpool = "none"
    /\ todo = <<>> /\ hq = <<>> /\ hrun = {}
    /\ keys_todo = <<>> /\ cq = <<>> /\ crun = {} /\ outq = <<>>
    /\ whoops = <<>> /\ wrong_files = <<>> /\ stdout = <<>>

C10_Witness ==
  /\ pc = "error"
  /\ err = "RuntimeError"
  /\ exists(args.dir1)
  /\ ~exists(args.dir2)
  /\ args.threads > 0

\* C11: with --threads <= 0 the run ends in an error before any scanning:
\* main() never enters a for loop, nothing is enumerated, no hash task is
\* dispatched, both dicts stay empty, and main() is not stuck before the
\* error.
C11_BadThreadsNoScan ==
  args.threads <= 0 =>
    /\ pc \in {"start", "setup", "error"}
    /\ pc = "error" => err \in {"RuntimeError", "ValueError"}
    /\ pc # "error" => ENABLED Next
    /\ todo = <<>> /\ hq = <<>> /\ hrun = {} /\ hpool = "none"
    /\ dir1_files = <<>> /\ dir2_files = <<>>
    /\ wrong_files = <<>> /\ stdout = <<>>

C11_Witness ==
  /\ pc = "error"
  /\ err = "ValueError"
  /\ args.threads = 0
  /\ ScanKeys(args.dir1) # {}
  /\ manager

\* The scheduler lets the main process, the workers and the result handler
\* run: a step that stays possible is taken.
FairSpec == Spec /\ WF_vars(Next)

\* both arguments are directories and the pool has at least one worker
GoodArgs ==
  isdir(args.dir1) /\ isdir(args.dir2) /\ args.threads >= 1

\* main() has printed; both pools are joined with nothing left in them
Finished ==
  /\ pc = "done"
  /\ stdout # <<>>
  /\ hpool = "joined" /\ todo = <<>> /\ hq = <<>> /\ hrun = {}
  /\ cpool = "joined" /\ keys_todo = <<>> /\ cq = <<>> /\ crun = {}
  /\ outq = <<>>

\* C12: for two existing directories and a pool of at least one worker,
\* under fair scheduling every hash task and every comparison task
\* finishes, both joins return and main() prints the result.
C12_Terminates == GoodArgs => <>Finished

C12_Witness ==
  /\ GoodArgs
  /\ Finished
  /\ args.threads > 1
  /\ Len(dir1_files) > 1
  /\ Len(wrong_files) > 1
  /\ Failing # {}

(* ------------------------------------------------------------------ *)
(* hash_file, statement by statement                                   *)
(* ------------------------------------------------------------------ *)

Bytes == { 104, 105, 119 }

\* every content of at most MaxLen bytes
Contents == UNION { [1..n -> Bytes] : n \in 0..MaxLen }

\* line 14-15: hash = hashlib.sha256() and the file opened at offset 0
HfCall(data, chunk_size) ==
  [pc |-> "read", data |-> data, chunk_size |-> chunk_size, pos |-> 0,
   chunk |-> <<>>, hash |-> DigestInit, fed |-> <<>>, reads |-> 0,
   digest |-> None]

InitHash ==
  /\ args = [dir1 |-> D1, dir2 |-> D2, recursive |-> FALSE, threads |-> 1]
  /\ fs = FsOf([p \in OptDirs |-> NoEnt], [p \in FilePaths |-> NoEnt])
  /\ pc = "start"
  /\ err = ""
  /\ manager = FALSE
  /\ dir1_files = <<>>
  /\ dir2_files = <<>>
  /\ todo = <<>>
  /\ hq = <<>>
  /\ hrun = {}
  /\ hpool = "none"
  /\ keys_todo = <<>>
  /\ cq = <<>>
  /\ crun = {}
  /\ outq = <<>>
  /\ cpool = "none"
  /\ whoops = <<>>
  /\ wrong_files = <<>>
  /\ stdout = <<>>
  /\ hf \in { HfCall(data, c) : data \in Contents, c \in 1..MaxChunk }

hfrest == << args, fs, pc, err, dictvars, hashvars, cmpvars, wrong_files,
            stdout >>

\* line 17 and line 20: chunk = f.read(chunk_size)
HfRead ==
  /\ hf.pc = "read"
  /\ LET chunk == read(hf.data, hf.pos, hf.chunk_size)
     IN hf' = [hf EXCEPT !.chunk = chunk, !.pos = @ + Len(chunk),
                         !.reads = @ + 1, !.pc = "while"]
  /\ UNCHANGED hfrest

\* line 18: while chunk
HfWhile ==
  /\ hf.pc = "while"
  /\ hf' = [hf EXCEPT !.pc = IF hf.chunk # <<>> THEN "update" ELSE "return"]
  /\ UNCHANGED hfrest

\* line 19: hash.update(chunk)
HfUpdate ==
  /\ hf.pc = "update"
  /\ hf' = [hf EXCEPT !.hash = update(@, hf.chunk), !.fed = @ \o hf.chunk,
                      !.pc = "read"]
  /\ UNCHANGED hfrest

\* line 21: return hash.digest()
HfReturn ==
  /\ hf.pc = "return"
  /\ hf' = [hf EXCEPT !.digest = <<hf.hash>>, !.pc = "returned"]
  /\ UNCHANGED hfrest

NextHash == HfRead \/ HfWhile \/ HfUpdate \/ HfReturn

SpecHash == InitHash /\ [][NextHash]_vars

\* C13: hash_file returns the digest of the whole content whatever the
\* chunk size, so any two chunk sizes give the same digest; the bytes fed to
\* the hash are always the bytes read so far, in order, each once, and at
\* the return they are the whole content, the last read having returned
\* nothing at end of file.
C13_ChunkSizeIndependent ==
  /\ hf.fed \o (IF hf.pc \in {"while", "update"} THEN hf.chunk ELSE <<>>)
       = SubSeq(hf.data, 1, hf.pos)
  /\ hf.hash = update(DigestInit, hf.fed)
  /\ hf.pc \in {"return", "returned"} =>
       /\ hf.fed = hf.data
       /\ hf.pos = Len(hf.data)
       /\ hf.chunk = <<>>
       /\ hf.reads = (Len(hf.data) + hf.chunk_size - 1) \div hf.chunk_size + 1
  /\ hf.pc = "returned" =>
       /\ hf.digest = DigestOf(hf.data)
       /\ \A c \in (1..MaxChunk) \cup {DefaultChunkSize} :
            hf.digest = <<hash_file(hf.data, c)>>

\* a content of several chunks whose last chunk is short
C13_Witness ==
  /\ hf.pc = "returned"
  /\ hf.chunk_size = 2
  /\ hf.data = <<104, 105, 119>>
  /\ hf.reads = 3
  /\ hf.digest # <<hash_file(<<104, 119>>, 2)>>

\* the filename a key ends with
basename(p) == p[Len(p)]

\* pairs of different readable files the scan of top enumerates under one
\* filename
SameName(top) ==
  { pq \in ScanKeys(top) \X ScanKeys(top) :
      /\ pq[1] # pq[2]
      /\ basename(pq[1]) = basename(pq[2])
      /\ Readable(pq[1]) /\ Readable(pq[2]) }

\* the entries of dict d whose key ends with filename f
EntriesNamed(d, f) == { i \in 1..Len(d) : basename(d[i][1]) = f }

\* C14 as stated: in recursive mode the dicts are keyed by filename only,
\* so two files of one root with the same name in different subdirectories
\* end as a single entry.
C14_FilenameOnlyKeys ==
  AtBarrier /\ args.recursive =>
    /\ \A k \in KeySet(dir1_files) \cup KeySet(dir2_files) : Len(k) = 1
    /\ \A pq \in SameName(args.dir1) :
         Cardinality(EntriesNamed(dir1_files, basename(pq[1]))) = 1
    /\ \A pq \in SameName(args.dir2) :
         Cardinality(EntriesNamed(dir2_files, basename(pq[1]))) = 1

\* dict d holds an entry of its own for each of two same-named files of top
BothKept(d, top) ==
  \A pq \in SameName(top) :
    /\ DictHas(d, pq[1]) /\ DictHas(d, pq[2])
    /\ DictGet(d, pq[1]) = DigestOf(Node(pq[1]).data)
    /\ DictGet(d, pq[2]) = DigestOf(Node(pq[2]).data)
    /\ Cardinality(EntriesNamed(d, basename(pq[1]))) >= 2

\* C14: in recursive mode every key is os.path.join(path, filename) with
\* path the directory os.walk found the file in, so two files of one root
\* with the same name in different subdirectories are written under two
\* different keys and both entries are in the dict at the barrier.
C14_PathKeysNoOverwrite ==
  AtBarrier /\ args.recursive =>
    /\ \A k \in KeySet(dir1_files) \cup KeySet(dir2_files) :
         Len(k) > 1 /\ isdir(Parent(k))
    /\ BothKept(dir1_files, args.dir1)
    /\ BothKept(dir2_files, args.dir2)

C14_Witness ==
  /\ AtBarrier
  /\ args.recursive
  /\ args.threads > 1
  /\ SameName(args.dir1) # {}
  /\ DictHas(dir1_files, <<"d1", "a">>)
  /\ DictHas(dir1_files, <<"d1", "s", "a">>)
  /\ Len(dir1_files) = 3

\* the hash tasks main() has still to dispatch for root n, and those
\* dispatched and not yet finished
Pending(n) ==
  { [d |-> n, path |-> e.path, f |-> e.f] :
      e \in IF pc = (IF n = 1 THEN "loop1" ELSE "loop2")
            THEN SeqToSet(todo) ELSE {} }

Dispatched(n) == { t \in SeqToSet(hq) \cup hrun : t.d = n }

\* C15 as stated: in non-recursive mode only the regular files directly in
\* the root are considered, keyed by filename: no hash task is dispatched
\* for a subdirectory of the root, no key is a subdirectory, and nothing
\* below a subdirectory is enumerated.
C15_OnlyRegularFilesDispatched ==
  ~args.recursive =>
    /\ \A t \in Dispatched(1) \cup Dispatched(2) :
         /\ ~isdir(join(t.path, t.f))
         /\ t.path = IF t.d = 1 THEN args.dir1 ELSE args.dir2
    /\ \A k \in KeySet(dir1_files) \cup KeySet(dir2_files) :
         /\ Len(k) = 1
         /\ ~isdir(k)

\* the keys hash_directory_file(d, path, f) assigns to: one, or none when
\* hash_file raises
KeysWritten(path, f) == KeySet(hash_directory_file(<<>>, path, f))

\* no two entries of the sequence q of (path, f) pairs write the same key
DistinctWrites(q) ==
  \A i, j \in 1..Len(q) :
    i # j => KeysWritten(q[i].path, q[i].f) \cap KeysWritten(q[j].path, q[j].f) = {}

\* the hash tasks of root n in the pool, queued ones first
InPool(n) ==
  LET running == { t \in hrun : t.d = n }
      Ordered[s \in SUBSET running] ==
        IF s = {} THEN <<>>
        ELSE LET t == CHOOSE x \in s : TRUE IN Append(Ordered[s \ {t}], t)
  IN SelectSeq(hq, LAMBDA t : t.d = n) \o Ordered[running]

\* the dict of root n
DictOf(n) == IF n = 1 THEN dir1_files ELSE dir2_files

\* C16: the hash tasks of one root (not yet dispatched, queued or running)
\* write pairwise different keys, none of them a key a finished task of
\* that root has written; so at the barrier each dict has the entries that
\* running the tasks one after the other in dispatch order gives.
C16_DistinctKeys ==
  /\ \A n \in {1, 2} :
       LET q == InPool(n) \o (IF Pending(n) = {} THEN <<>> ELSE todo)
       IN /\ DistinctWrites(q)
          /\ \A i \in 1..Len(q) :
               KeysWritten(q[i].path, q[i].f) \cap KeySet(DictOf(n)) = {}
  /\ AtBarrier =>
       /\ SeqToSet(dir1_files) = SeqToSet(HashAll(<<>>, Enumerate(args.dir1)))
       /\ SeqToSet(dir2_files) = SeqToSet(HashAll(<<>>, Enumerate(args.dir2)))
       /\ Len(dir1_files) = Cardinality(KeySet(dir1_files))
       /\ Len(dir2_files) = Cardinality(KeySet(dir2_files))

\* two workers run the tasks of two same-named files of one root at once
C16_Witness ==
  /\ args.recursive
  /\ [d |-> 1, path |-> D1, f |-> "a"] \in hrun
  /\ [d |-> 1, path |-> S1, f |-> "a"] \in hrun
  /\ KeysWritten(D1, "a") # {}
  /\ KeysWritten(S1, "a") # {}

\* compare_directories has been called and main() has not ended
Comparing == pc \in {"compare", "cloop", "cjoin", "print", "done"}

\* dict d becomes e by the one assignment of the hash task t: the entries
\* of d stay, and at most the entry of t's file is new
OneWrite(d, e, t) ==
  /\ Len(e) <= Len(d) + 1
  /\ \A i \in 1..Len(d) : e[i] = d[i]
  /\ KeySet(e) \ KeySet(d) \subseteq {join(t.path, t.f)}

\* a step that changes the dict of root n is the end of a running hash
\* task of root n
WrittenByOwnTask(n, d, e) ==
  d # e => \E t \in hrun : t.d = n /\ hrun' = hrun \ {t} /\ OneWrite(d, e, t)

\* C17: no step changes a dict once compare_directories is called; before
\* that, a step changes at most one of the two dicts, the dict of root 1
\* only by a hash task of root 1 and the dict of root 2 only by a hash task
\* of root 2, each adding at most the one key of its file.
C17_PhaseFrame ==
  [][ /\ Comparing => dir1_files' = dir1_files /\ dir2_files' = dir2_files
      /\ dir1_files' = dir1_files \/ dir2_files' = dir2_files
      /\ WrittenByOwnTask(1, dir1_files, dir1_files')
      /\ WrittenByOwnTask(2, dir2_files, dir2_files') ]_vars

\* compare_directories has returned a report over two dicts the hash tasks
\* of both roots wrote
C17_Witness ==
  /\ pc = "print"
  /\ args.threads > 1
  /\ Len(dir1_files) > 1
  /\ Len(dir2_files) > 1
  /\ KeySet(dir1_files) \cap KeySet(dir2_files) = {}
  /\ wrong_files # <<>>

\* key k of the dict of root top is os.path.join(directory, filename) for a
\* file in a directory that is top or lies below it
KeyUnder(k, top) ==
  /\ Len(k) > Len(top)
  /\ IsPrefix(top, k)
  /\ isdir(Parent(k))
  /\ IsPrefix(top, Parent(k))
  /\ k = join(Parent(k), basename(k))
  /\ Node(k).kind = "file"
  /\ args.recursive \/ Parent(k) = top

Differing(A, B) ==
  { k \in KeySet(A) : ~DictHas(B, k) \/ DictGet(A, k) # DictGet(B, k) }

\* the comparison tasks that have not sent their result yet
Unfinished == SeqToSet(keys_todo) \cup SeqToSet(cq) \cup crun

\* the results waiting for the callback that are not None
Waiting == SelectSeq(outq, LAMBDA r : r # None)

NoDuplicates(s) == Len(s) = Cardinality(SeqToSet(s))

\* C19: while compare_directories runs, every key of A has one task that is
\* still to run, or one result waiting for the callback, or has been
\* handled, never two of these; whoops holds each differing key whose
\* result was handled once; when join() has returned nothing is waiting and
\* the returned list has no duplicates and as many elements as A has keys
\* that B lacks or maps to another digest.
C19_NoDuplicateNoLoss ==
  /\ pc \in {"cloop", "cjoin"} =>
       /\ NoDuplicates(keys_todo \o cq \o Waiting \o whoops)
       /\ Unfinished \subseteq KeySet(dir1_files)
       /\ Len(keys_todo) + Len(cq) + Cardinality(crun) + Len(outq)
            <= Len(dir1_files)
       /\ crun \cap SeqToSet(keys_todo \o cq \o Waiting \o whoops) = {}
       /\ Differing(dir1_files, dir2_files)
            = (Unfinished \cap Differing(dir1_files, dir2_files))
              \cup SeqToSet(Waiting \o whoops)
  /\ pc = "print" =>
       /\ Unfinished = {} /\ outq = <<>>
       /\ wrong_files = whoops
       /\ NoDuplicates(wrong_files)
       /\ Len(wrong_files)
            = Cardinality(Differing(dir1_files, dir2_files))

\* one key of A is missing in B and reported, the other matches and its
\* None result is dropped
C19_Witness ==
  /\ pc = "print"
  /\ args.threads > 1
  /\ Len(dir1_files) = 2
  /\ Len(dir2_files) = 1
  /\ Differing(dir1_files, dir2_files) = { <<"d1", "b">> }
  /\ wrong_files = << <<"d1", "b">> >>

\* the file of key p is at the same relative position under both roots
\* with the same content: without a hashing failure it matches
OtherwiseMatching(p) ==
  /\ p \in ScanKeys(args.dir1)
  /\ Counterpart(p) \in ScanKeys(args.dir2)
  /\ Node(p).kind = "file" /\ Node(Counterpart(p)).kind = "file"
  /\ SameContent(p)

\* C20 as stated: a file whose hashing under dir1 fails has no key in
\* dir1_files, no comparison task and no place in the report; and a file
\* under dir1 that matches its counterpart under dir2 is reported only when
\* the hashing of the counterpart failed.
C20_OnlyDir2FailureReports ==
  /\ \A p \in ScanKeys(args.dir1) :
       ~Readable(p) =>
         /\ ~DictHas(dir1_files, p)
         /\ p \notin Unfinished
         /\ p \notin SeqToSet(outq \o whoops \o wrong_files)
  /\ \A p \in SeqToSet(whoops \o wrong_files) :
       OtherwiseMatching(p) => ~Readable(Counterpart(p))

====
